---------------------------- MODULE Spec2Model ----------------------------
(***************************************************************************)
(* TSP Visualizer (src/components/tsp-visualizer.tsx): the React           *)
(* component's state, its event handlers (randomize, clear, start, reset)  *)
(* and the five asynchronous tour-construction strategies, each cut into   *)
(* the atomic segments the JavaScript event loop runs between two awaits.  *)
(***************************************************************************)
EXTENDS Integers, Sequences, FiniteSets, TLC

VARIABLES
    points,        \* useState<Point[]>: the controller's point set
    isRunning,     \* useState(false)
    currentPath,   \* useState<Point[]>: the displayed step
    bestPath,      \* useState<Point[]>: the published final tour
    metrics,       \* useState<Metrics>: possiblePaths, currentDistance, minDistance
    algorithmRef,  \* useRef: 0 is null, i > 0 refers to the object tokens[i]
    tokens,        \* the {stopped} objects startAlgorithm has allocated, in order
    runs,          \* runs[i]: the async strategy call made by the i-th start
    events,        \* how many user events (button presses) have been handled
    finalCosts,    \* history: final costs of the runs completed on the current point set
    lastCompletedMin, \* history: minDistance after the latest completed run on this point set
    resetSince,    \* history: reset was invoked since the latest completed run
    consoleLog,    \* the messages written with console.log
    costPath,      \* pathCost as a function: the path it is applied to
    costValue      \* pathCost as a function: the Number it returns for costPath

vars == <<points, isRunning, currentPath, bestPath, metrics, algorithmRef,
          tokens, runs, events, finalCosts, lastCompletedMin, resetSince,
          consoleLog, costPath, costValue>>

-----------------------------------------------------------------------------
(* Bounds of the model *)

\* the largest vertex count the slider is moved to (the slider itself goes to 100)
MaxVertices == 4
\* how many user events (randomize, clear, start, reset) one behaviour handles
MaxEvents == 3

(* Program constants *)

\* <Slider min={3}>: the smallest vertex count the user interface offers
MinVertices == 3
\* the Infinity of Metrics.minDistance and of the strategies' running minima;
\* larger than every cost the model can compute
Infinity == 1000000
\* gridSizeX and gridSizeY of randomizeVerticesCallback
gridSizeX == 20
gridSizeY == 15

-----------------------------------------------------------------------------
(* Points *)

Point(col, row) == [x |-> col * gridSizeX, y |-> row * gridSizeY]

\* The grid positions randomize draws from.  The code draws from 38 x 38
\* cells; the model keeps the four corners of a 2 x 2-cell rectangle and its
\* centre, a set in which every pairwise Euclidean distance is an integer
\* (40, 30, 50 and 25), so that Math.sqrt is modelled exactly.  The centre is
\* interior to the rectangle and collinear with either diagonal.
Positions ==
    { Point(1, 1), Point(3, 1), Point(1, 3), Point(3, 3), Point(2, 2) }

\* JavaScript's undefined, as yielded by find() on no match and by path[0]
\* of an empty array
Undefined == [x |-> -1, y |-> -1]

Range(s) == { s[i] : i \in 1..Len(s) }

\* the sequences of n pairwise different positions: what the rejection loop of
\* randomize (usedPositions) can produce for vertices = n
RECURSIVE PointSets(_)
PointSets(n) ==
    IF n = 0 THEN { <<>> }
    ELSE UNION { { Append(s, p) : p \in Positions \ Range(s) } : s \in PointSets(n - 1) }

-----------------------------------------------------------------------------
(* Utility functions *)

Abs(n) == IF n < 0 THEN -n ELSE n

\* Math.sqrt((a.x - b.x) ** 2 + (a.y - b.y) ** 2), tabulated over Positions,
\* where every sum of squares is a perfect square
DistanceTable ==
    [a \in Positions, b \in Positions |->
        LET dx == Abs(a.x - b.x)
            dy == Abs(a.y - b.y)
        IN  CHOOSE r \in 0..(dx + dy) : r * r = dx * dx + dy * dy]

distance(a, b) == DistanceTable[a, b]

\* reading .x of undefined: distance throws a TypeError when handed undefined
\* (a.x / b.x), which pathCost does for every element next to another one
PathThrows(path) ==
    \E i \in 1..(Len(path) - 1) : path[i] = Undefined \/ path[i + 1] = Undefined

RECURSIVE pathCost(_)
pathCost(path) ==
    IF Len(path) <= 1 THEN 0
    ELSE distance(path[1], path[2]) + pathCost(Tail(path))

RECURSIVE factorial(_)
factorial(n) == IF n = 0 \/ n = 1 THEN 1 ELSE n * factorial(n - 1)

Min(a, b) == IF a < b THEN a ELSE b

\* an insertion one position too early, before path[i - 1] in the code's
\* counting; C30 does not hold of it
InsertOneEarly(path, i, p) ==
    IF i = 0 THEN <<p>> \o path
    ELSE SubSeq(path, 1, i - 1) \o <<p>> \o SubSeq(path, i, Len(path))

\* [...path.slice(0, i), p, ...path.slice(i)] and path.splice(i, 0, p)
InsertAt(path, i, p) ==
    SubSeq(path, 1, i) \o <<p>> \o SubSeq(path, i + 1, Len(path))

\* filter(q => q !== p)
Without(seq, p) == SelectSeq(seq, LAMBDA q : q # p)

Reverse(seq) == [i \in 1..Len(seq) |-> seq[Len(seq) + 1 - i]]

\* [...path, path[0]]; path[0] of an empty array is undefined
Closed(path) == path \o << IF path = <<>> THEN Undefined ELSE path[1] >>

-----------------------------------------------------------------------------
(* Numbers of the JavaScript Number type (IEEE 754 binary64).  A natural     *)
(* number is a sequence of binary digits, least significant first, without   *)
(* leading zeros (<<>> is 0); a positive double is [m, e] with m a numeral of *)
(* Precision digits and value m * 2^e; DoubleZero is +0.                      *)

Precision == 53

Zeros(n) == [i \in 1..n |-> 0]

\* the numeral without its leading zeros
Trim(b) == SubSeq(b, 1, Cardinality({ i \in 1..Len(b) :
                                        \E k \in i..Len(b) : b[k] = 1 }))

\* an integer below 2^31 as a numeral
ToBits(n) == Trim([i \in 1..31 |-> (n \div 2^(i - 1)) % 2])

Digit(b, i) == IF i <= Len(b) THEN b[i] ELSE 0

Longer(a, b) == IF Len(a) > Len(b) THEN Len(a) ELSE Len(b)

\* the carry into digit i of a + b: a lower digit generates one and every
\* digit between passes it on
Carry(a, b, i) ==
    IF \E j \in 1..(i - 1) :
           /\ Digit(a, j) + Digit(b, j) = 2
           /\ \A k \in (j + 1)..(i - 1) : Digit(a, k) + Digit(b, k) >= 1
    THEN 1 ELSE 0

BitsAdd(a, b) ==
    Trim([i \in 1..(Longer(a, b) + 1) |->
             (Digit(a, i) + Digit(b, i) + Carry(a, b, i)) % 2])

\* the borrow from digit i of a - b
Borrow(a, b, i) ==
    IF \E j \in 1..(i - 1) :
           /\ Digit(a, j) < Digit(b, j)
           /\ \A k \in (j + 1)..(i - 1) : Digit(a, k) <= Digit(b, k)
    THEN 1 ELSE 0

\* a - b for a >= b
BitsSub(a, b) ==
    Trim([i \in 1..Len(a) |->
             (Digit(a, i) - Digit(b, i) - Borrow(a, b, i)) % 2])

BitsGeq(a, b) ==
    \/ Len(a) > Len(b)
    \/ /\ Len(a) = Len(b)
       /\ \A i \in 1..Len(a) :
              a[i] < b[i] => \E k \in (i + 1)..Len(a) : a[k] > b[k]

ShiftLeft(b, n) == IF b = <<>> THEN <<>> ELSE Zeros(n) \o b

DoubleZero == [m |-> <<>>, e |-> 0]

\* round to nearest, ties to even: the double nearest to n * 2^e, or to a
\* value just above it when sticky
RoundToDouble(n, e, sticky) ==
    IF Len(n) <= Precision
    THEN [m |-> Zeros(Precision - Len(n)) \o n, e |-> e - (Precision - Len(n))]
    ELSE LET k    == Len(n) - Precision
             high == SubSeq(n, k + 1, Len(n))
             rest == sticky \/ \E i \in 1..(k - 1) : n[i] = 1
             up   == n[k] = 1 /\ (rest \/ high[1] = 1)
             m0   == IF up THEN BitsAdd(high, <<1>>) ELSE high
         IN  IF Len(m0) > Precision
             THEN [m |-> Tail(m0), e |-> e + k + 1]
             ELSE [m |-> m0, e |-> e + k]

\* a + b of two doubles
DoubleAdd(a, b) ==
    IF a.m = <<>> THEN b
    ELSE IF b.m = <<>> THEN a
    ELSE RoundToDouble(BitsAdd(ShiftLeft(a.m, a.e - Min(a.e, b.e)),
                               ShiftLeft(b.m, b.e - Min(a.e, b.e))),
                       Min(a.e, b.e), FALSE)

\* the square root digit by digit: k pairs of digits of n are still to be
\* brought down, root and rem are the root and the remainder so far
RECURSIVE SqrtDigits(_, _, _, _)
SqrtDigits(n, k, root, rem) ==
    IF k = 0 THEN [root |-> root, rem |-> rem]
    ELSE LET r     == Trim(<<Digit(n, 2 * k - 1), Digit(n, 2 * k)>> \o rem)
             trial == Trim(<<1, 0>> \o root)
         IN  IF BitsGeq(r, trial)
             THEN SqrtDigits(n, k - 1, <<1>> \o root, BitsSub(r, trial))
             ELSE SqrtDigits(n, k - 1, Trim(<<0>> \o root), r)

BitsSqrt(n) == SqrtDigits(n, (Len(n) + 1) \div 2, <<>>, <<>>)

RoundRoot(r, e) == RoundToDouble(r.root, e, r.rem # <<>>)

\* Math.sqrt of a natural number below 2^31, correctly rounded
DoubleSqrt(n) ==
    IF n = 0 THEN DoubleZero
    ELSE RoundRoot(BitsSqrt(ShiftLeft(ToBits(n), 2 * (Precision + 1))),
                   -(Precision + 1))

\* grid positions with irrational distances between them: three of Positions,
\* whose distances are 40, 30 and 50, and two more positions of the grid
TourPositions ==
    { Point(1, 1), Point(3, 1), Point(1, 3), Point(2, 4), Point(4, 1) }

\* Math.sqrt((a.x - b.x) ** 2 + (a.y - b.y) ** 2): the squares and their sum
\* are integers far below 2^53 and therefore exact
DoubleDistanceTable ==
    [a \in TourPositions, b \in TourPositions |->
        DoubleSqrt((a.x - b.x) * (a.x - b.x) + (a.y - b.y) * (a.y - b.y))]

distanceDouble(a, b) == DoubleDistanceTable[a, b]

\* let cost = 0; for (i = 0; i < path.length - 1; i++) cost += distance(...):
\* the additions are made from left to right, each one rounded
RECURSIVE CostFrom(_, _, _)
CostFrom(cost, path, i) ==
    IF i >= Len(path) THEN cost
    ELSE CostFrom(DoubleAdd(cost, distanceDouble(path[i], path[i + 1])),
                  path, i + 1)

\* a cost that leaves out the last edge of the path; C16 does not hold of it
pathCostWithoutLastEdge(path) ==
    CostFrom(DoubleZero, SubSeq(path, 1, Len(path) - 1), 1)

\* pathCost in the arithmetic of Number.  On Positions every distance and
\* every sum is a small integer, exact in that arithmetic, and pathCost above
\* is the same function.
pathCostDouble(path) == CostFrom(DoubleZero, path, 1)

-----------------------------------------------------------------------------
\* a sort that puts an element before the elements that compare equal to it;
\* C19 does not hold of it
RECURSIVE InsertBeforeEquals(_, _, _, _)
InsertBeforeEquals(sorted, p, from, descending) ==
    IF sorted = <<>> THEN <<p>>
    ELSE LET last == sorted[Len(sorted)]
             before == IF descending
                       THEN distance(from, p) >= distance(from, last)
                       ELSE distance(from, p) <= distance(from, last)
         IN  IF before
             THEN Append(InsertBeforeEquals(SubSeq(sorted, 1, Len(sorted) - 1),
                                            p, from, descending), last)
             ELSE Append(sorted, p)

\* Array.prototype.sort is stable: an element goes behind the elements that
\* compare equal to it and came before it
RECURSIVE InsertByDistance(_, _, _, _)
InsertByDistance(sorted, p, from, descending) ==
    IF sorted = <<>> THEN <<p>>
    ELSE LET last == sorted[Len(sorted)]
             before == IF descending
                       THEN distance(from, p) > distance(from, last)
                       ELSE distance(from, p) < distance(from, last)
         IN  IF before
             THEN Append(InsertByDistance(SubSeq(sorted, 1, Len(sorted) - 1),
                                          p, from, descending), last)
             ELSE Append(sorted, p)

\* seq.sort((a, b) => distance(from, a) - distance(from, b)), or b before a
RECURSIVE SortByDistance(_, _, _)
SortByDistance(seq, from, descending) ==
    IF seq = <<>> THEN <<>>
    ELSE InsertByDistance(
             SortByDistance(SubSeq(seq, 1, Len(seq) - 1), from, descending),
             seq[Len(seq)], from, descending)

\* d(path[i], p) + d(p, path[(i + 1) % len]) - d(path[i], path[(i + 1) % len]),
\* i counted from 0 as in the code
insertionCost(path, i, p) ==
    LET a == path[i + 1]
        b == path[((i + 1) % Len(path)) + 1]
    IN  distance(a, p) + distance(p, b) - distance(a, b)

-----------------------------------------------------------------------------
(* The strategies' local state is [path, rem]: the tour under construction   *)
(* and remainingPoints.  One loop iteration yields that state plus the step  *)
(* it emits: shown is the argument of setCurrentPath, dist the new           *)
(* currentDistance, placed whether the iteration reached its await.          *)

Local(path, rem) == [path |-> path, rem |-> rem]

Iteration(path, rem, shown, dist, placed) ==
    [path |-> path, rem |-> rem, shown |-> shown, dist |-> dist, placed |-> placed]

\* a step that shows the path as it was before the placement; C26 does not
\* hold of it
OpenStepBehind(path, rem) ==
    Iteration(path, rem, SubSeq(path, 1, Len(path) - 1), pathCost(path), TRUE)

\* setCurrentPath([...path]) with currentDistance: pathCost(path)
OpenStep(path, rem) == Iteration(path, rem, path, pathCost(path), TRUE)

\* setCurrentPath([...path, path[0]]) with currentDistance:
\* pathCost([...path, path[0]])
ClosedStep(path, rem) ==
    Iteration(path, rem, Closed(path), pathCost(Closed(path)), TRUE)

\* a loop body that selects no point: nothing is set and nothing is awaited
NotPlaced(path, rem) == Iteration(path, rem, <<>>, 0, FALSE)

\* the index of the first least value of f, a function on integers: the scan
\* `if (cost < best) { best = cost; ... }' from Infinity
FirstMin(f) ==
    CHOOSE i \in DOMAIN f :
        \A k \in DOMAIN f : f[i] < f[k] \/ (f[i] = f[k] /\ i <= k)

\* a scan over pairs that keeps the last least pair (`<=' for `<'); C21 does
\* not hold of it
LastMinPair(f) ==
    CHOOSE c \in DOMAIN f :
        \A e \in DOMAIN f :
            \/ f[c] < f[e]
            \/ f[c] = f[e] /\ (c[1] > e[1] \/ (c[1] = e[1] /\ c[2] >= e[2]))

\* the same scan over pairs, the first component in the outer loop
FirstMinPair(f) ==
    CHOOSE c \in DOMAIN f :
        \A e \in DOMAIN f :
            \/ f[c] < f[e]
            \/ f[c] = f[e] /\ (c[1] < e[1] \/ (c[1] = e[1] /\ c[2] <= e[2]))

\* points.find(p => p !== startPoint)
FirstOf(others) == IF others = <<>> THEN Undefined ELSE others[1]

FindOther(pts, startPoint) == FirstOf(Without(pts, startPoint))

\* points.filter(p => !path.includes(p))
NotIn(pts, path) == SelectSeq(pts, LAMBDA p : p \notin Range(path))

\* nearestNeighbor, lines 195-197; s is the random index, counted from 1
nearestNeighborInit(pts, s) == Local(<<pts[s]>>, Without(pts, pts[s]))

\* a shift that leaves the nearest point in remainingPoints; C4 does not hold
\* of it
ShiftKeepingRemaining(path, sorted) == OpenStep(Append(path, sorted[1]), sorted)

\* nearestNeighbor, lines 205-215: shift the first of the sorted
\* remainingPoints onto the path
ShiftOnto(path, sorted) == OpenStep(Append(path, sorted[1]), Tail(sorted))

\* nearestNeighbor, lines 201-215: remainingPoints is sorted in place by
\* distance to the last point of the path
nearestNeighborStep(path, rem) ==
    ShiftOnto(path, SortByDistance(rem, path[Len(path)], FALSE))

\* arbitraryInsertion, lines 238-240, and nearestInsertion, lines 287-289
InitialPair(pts, path) == Local(path, NotIn(pts, path))

\* an initial pair whose second point is the first other point in one start
\* and the last other point in the next; C15 does not hold of it
insertionInitAlternating(pts, s) ==
    InitialPair(pts, <<pts[s],
                       IF events % 2 = 0 THEN FindOther(pts, pts[s])
                       ELSE FindOther(Reverse(pts), pts[s])>>)

insertionInit(pts, s) == InitialPair(pts, <<pts[s], FindOther(pts, pts[s])>>)

\* arbitraryInsertion, lines 249-256: pathCost(newPath) for every position i
\* from 0 to path.length
PositionCosts(path, nextPoint) ==
    [i \in 0..Len(path) |-> pathCost(InsertAt(path, i, nextPoint))]

\* arbitraryInsertion, lines 258-264: path.splice(bestPosition, 0, nextPoint);
\* currentDistance is bestCost
SpliceAt(path, rem, bestPosition, bestCost) ==
    Iteration(InsertAt(path, bestPosition, rem[1]), Tail(rem),
              Closed(InsertAt(path, bestPosition, rem[1])), bestCost, TRUE)

InsertCheapest(path, rem, costs) ==
    SpliceAt(path, rem, FirstMin(costs), costs[FirstMin(costs)])

\* arbitraryInsertion, lines 243-264
arbitraryInsertionStep(path, rem) ==
    InsertCheapest(path, rem, PositionCosts(path, rem[1]))

\* the insertion cost of every (remaining point, edge) pair: j is the point's
\* index in rem from 1, i the edge's index in path from 0
PairCosts(path, rem) ==
    [c \in (1..Len(rem)) \X (0..(Len(path) - 1)) |->
        insertionCost(path, c[2], rem[c[1]])]

\* lines 296-305 and 470-479: the pair of least cost, the first such pair in
\* the order of the nested loops (points outside, edges inside)
NearestPair(path, rem) == FirstMinPair(PairCosts(path, rem))

\* remainingPoints.splice(j, 1), j from 1
RemoveAt(seq, j) == SubSeq(seq, 1, j - 1) \o SubSeq(seq, j + 1, Len(seq))

\* nearestInsertion, lines 308-316, for the pair c = <<j, i>>
InsertNearest(path, rem, c) ==
    ClosedStep(InsertAt(path, c[2] + 1, rem[c[1]]), RemoveAt(rem, c[1]))

\* nearestInsertion, lines 292-316; with an empty path no pair is scanned,
\* nearestPoint stays null and the loop goes round without awaiting
nearestInsertionStep(path, rem) ==
    IF path = <<>> THEN NotPlaced(path, rem)
    ELSE InsertNearest(path, rem, NearestPair(path, rem))

\* furthestInsertion, lines 345-355: the first of the sorted points joins the
\* path; the initial step shows the open path
FurthestFirst(p0, sorted) ==
    IF sorted = <<>> THEN OpenStep(<<p0>>, <<>>)
    ELSE OpenStep(<<p0, sorted[1]>>, Tail(sorted))

\* an initialization that goes to the nearest point first; C22 does not hold
\* of it
nearestFirstInit(pts) ==
    FurthestFirst(pts[1], SortByDistance(Tail(pts), pts[1], FALSE))

\* furthestInsertion, lines 340-355: path = [points[0]], remainingPoints sorted
\* by descending distance from it
furthestInsertionInit(pts) ==
    FurthestFirst(pts[1], SortByDistance(Tail(pts), pts[1], TRUE))

\* the least element of a set of numbers, Infinity for none
Least(ds) == IF ds = {} THEN Infinity ELSE CHOOSE m \in ds : \A n \in ds : m <= n

\* furthestInsertion, lines 364-370
minDistanceToPath(path, freePoint) ==
    Least({ distance(freePoint, path[i]) : i \in 1..Len(path) })

\* the first index at which f is greatest, if that is more than 0; else 0:
\* the scan `if (d > selectedDistance)' from 0 and null
FirstMaxAboveZero(f) ==
    IF \A j \in DOMAIN f : f[j] <= 0 THEN 0
    ELSE CHOOSE j \in DOMAIN f :
             \A k \in DOMAIN f : f[j] > f[k] \/ (f[j] = f[k] /\ j <= k)

\* furthestInsertion, lines 361-375: the index in rem of selectedPoint, 0 for null
SelectedIndex(path, rem) ==
    FirstMaxAboveZero([j \in 1..Len(rem) |-> minDistanceToPath(path, rem[j])])

\* furthestInsertion, lines 379-389: bestIdx, the position behind the first
\* edge of least insertion cost
BestIdx(path, p) ==
    FirstMin([i \in 0..(Len(path) - 1) |-> insertionCost(path, i, p)]) + 1

\* furthestInsertion, lines 377-399, for selectedPoint = rem[j]
InsertFurthest(path, rem, j) ==
    IF j = 0 THEN NotPlaced(path, rem)
    ELSE OpenStep(InsertAt(path, BestIdx(path, rem[j]), rem[j]),
                  Without(rem, rem[j]))

\* furthestInsertion, lines 360-399
furthestInsertionStep(path, rem) ==
    InsertFurthest(path, rem, SelectedIndex(path, rem))

\* convexHull: (a.x - o.x) * (b.y - o.y) - (a.y - o.y) * (b.x - o.x)
cross(o, a, b) == (a.x - o.x) * (b.y - o.y) - (a.y - o.y) * (b.x - o.x)

\* the comparator a.x - b.x || a.y - b.y is negative
LexBefore(a, b) == a.x < b.x \/ (a.x = b.x /\ a.y < b.y)

DropLast(seq) == SubSeq(seq, 1, Len(seq) - 1)

RECURSIVE InsertLex(_, _)
InsertLex(sorted, p) ==
    IF sorted = <<>> THEN <<p>>
    ELSE IF LexBefore(p, sorted[Len(sorted)])
         THEN Append(InsertLex(DropLast(sorted), p), sorted[Len(sorted)])
         ELSE Append(sorted, p)

\* [...points].sort((a, b) => a.x - b.x || a.y - b.y)
RECURSIVE SortLex(_)
SortLex(seq) ==
    IF seq = <<>> THEN <<>>
    ELSE InsertLex(SortLex(DropLast(seq)), seq[Len(seq)])

\* while (hull.length >= 2 && cross(hull[-2], hull[-1], point) <= 0) hull.pop()
RECURSIVE PopWhile(_, _)
PopWhile(hull, point) ==
    IF Len(hull) >= 2 /\ cross(hull[Len(hull) - 1], hull[Len(hull)], point) <= 0
    THEN PopWhile(DropLast(hull), point)
    ELSE hull

\* one chain of the monotone-chain scan over seq, continued from hull
RECURSIVE BuildChain(_, _)
BuildChain(hull, seq) ==
    IF seq = <<>> THEN hull
    ELSE BuildChain(Append(PopWhile(hull, seq[1]), seq[1]), Tail(seq))

\* convexHull, lines 433-451: the lower hull over sortedPoints, the upper hull
\* over them backwards, each without its last point (slice(0, -1))
BothChains(sortedPoints) ==
    DropLast(BuildChain(<<>>, sortedPoints))
        \o DropLast(BuildChain(<<>>, Reverse(sortedPoints)))

\* convexHull, lines 430-451
hullPoints(pts) == BothChains(SortLex(pts))

\* convexHull, lines 452-460: the hull is the initial path, shown closed
HullFirst(pts, hull) == ClosedStep(hull, NotIn(pts, hull))

convexHullInit(pts) == HullFirst(pts, hullPoints(pts))

\* convexHull, lines 482-490, for the pair c = <<j, i>>:
\* remainingPoints.filter(p => p !== nearestPoint)
InsertIntoHull(path, rem, c) ==
    ClosedStep(InsertAt(path, c[2] + 1, rem[c[1]]), Without(rem, rem[c[1]]))

\* convexHull, lines 466-490: the nearest-insertion rule
convexHullStep(path, rem) ==
    IF path = <<>> THEN NotPlaced(path, rem)
    ELSE InsertIntoHull(path, rem, NearestPair(path, rem))

-----------------------------------------------------------------------------
(* A run is one call of a strategy: alg, the points array its closure        *)
(* captured, its local path and remainingPoints, and where it stands:        *)
(*   "await"      awaiting the setTimeout of its latest step                 *)
(*   "completed"  left the loop un-stopped, published its tour, returned;    *)
(*                path is then the array it handed to setBestPath            *)
(*   "stopped"    saw the stopped flag, returned without publishing          *)
(*   "threw"      ended by a TypeError (its promise rejected)                *)
(*   "hung"       going round its loop without ever awaiting                 *)

Algorithms ==
    { "nearest-neighbor", "arbitrary-insertion", "nearest-insertion",
      "furthest-insertion", "convex-hull" }

NewRun(alg, pts, local) ==
    [alg |-> alg, pts |-> pts, path |-> local.path, rem |-> local.rem,
     pc |-> "await"]

\* one loop body of the strategy
Step(alg, path, rem) ==
    CASE alg = "nearest-neighbor"    -> nearestNeighborStep(path, rem)
      [] alg = "arbitrary-insertion" -> arbitraryInsertionStep(path, rem)
      [] alg = "nearest-insertion"   -> nearestInsertionStep(path, rem)
      [] alg = "furthest-insertion"  -> furthestInsertionStep(path, rem)
      [] alg = "convex-hull"         -> convexHullStep(path, rem)

\* what one atomic segment of a run leaves behind: the run and the React state
\* it has set; final is the final cost it published, -1 when it published none
Outcome(run, cp, bp, m, ir, final) ==
    [run |-> run, currentPath |-> cp, bestPath |-> bp, metrics |-> m,
     isRunning |-> ir, final |-> final]

\* a stopped run that shows once more the path it has built; C31 does not
\* hold of it
ObserveStopShowingPath(run, cp, bp, m) ==
    Outcome([run EXCEPT !.pc = "stopped"], run.path, bp, m, FALSE, -1)

\* the loop test found the run stopped: only setIsRunning(false) is executed
ObserveStop(run, cp, bp, m) ==
    Outcome([run EXCEPT !.pc = "stopped"], cp, bp, m, FALSE, -1)

\* a publication that stores finalCost as minDistance whatever the previous
\* value; C10 does not hold of it
PublishLatestCost(run, finalPath, finalCost, cp, m) ==
    Outcome([run EXCEPT !.pc = "completed", !.path = finalPath],
            cp, finalPath,
            [m EXCEPT !.currentDistance = finalCost, !.minDistance = finalCost],
            FALSE, finalCost)

\* setBestPath, setMetrics with Math.min(finalCost, prev.minDistance), and
\* setIsRunning(false)
Publish(run, finalPath, finalCost, cp, m) ==
    Outcome([run EXCEPT !.pc = "completed", !.path = finalPath],
            cp, finalPath,
            [m EXCEPT !.currentDistance = finalCost,
                      !.minDistance = Min(finalCost, m.minDistance)],
            FALSE, finalCost)

\* the block after the loop: pathCost of the closed tour throws when the tour
\* holds undefined, and nothing behind it is executed
CloseTour(run, finalPath, cp, bp, m, ir) ==
    IF PathThrows(finalPath)
    THEN Outcome([run EXCEPT !.pc = "threw"], cp, bp, m, ir, -1)
    ELSE Publish(run, finalPath, pathCost(finalPath), cp, m)

\* a final block that publishes the tour without the return to start; C1 does
\* not hold of it
FinishWithoutReturn(run, cp, bp, m, ir) ==
    CloseTour(run, run.path, cp, bp, m, ir)

\* a final block that also shows the closed tour as a step; C25 does not hold
\* of it
FinishShowingTour(run, cp, bp, m, ir) ==
    CloseTour(run, Closed(run.path), Closed(run.path), bp, m, ir)

\* path.push(path[0]) / [...path, path[0]]: return to start
Finish(run, cp, bp, m, ir) == CloseTour(run, Closed(run.path), cp, bp, m, ir)

\* a step that also keeps minDistance at the least cost shown so far; C18
\* does not hold of it
EmitTrackingMin(run, it, cp, bp, m, ir) ==
    IF it.placed
    THEN Outcome([run EXCEPT !.path = it.path, !.rem = it.rem, !.pc = "await"],
                 it.shown, bp,
                 [m EXCEPT !.currentDistance = it.dist,
                           !.minDistance = Min(it.dist, m.minDistance)],
                 ir, -1)
    ELSE Outcome([run EXCEPT !.pc = "hung"], cp, bp, m, ir, -1)

\* the step `it' of a loop body: the point is placed and the step emitted
\* before the await; without a selected point the loop goes round for ever
Emit(run, it, cp, bp, m, ir) ==
    IF it.placed
    THEN Outcome([run EXCEPT !.path = it.path, !.rem = it.rem, !.pc = "await"],
                 it.shown, bp, [m EXCEPT !.currentDistance = it.dist], ir, -1)
    ELSE Outcome([run EXCEPT !.pc = "hung"], cp, bp, m, ir, -1)

\* from the loop test `while (remainingPoints.length > 0 && !stopped)' to the
\* next await or to the return; stopped is algorithmRef.current?.stopped as
\* read at that moment, (cp, bp, m, ir) the React state the segment starts from
Resume(run, stopped, cp, bp, m, ir) ==
    IF run.rem # <<>> /\ ~stopped
    THEN Emit(run, Step(run.alg, run.path, run.rem), cp, bp, m, ir)
    ELSE IF ~stopped THEN Finish(run, cp, bp, m, ir)
    ELSE ObserveStop(run, cp, bp, m)

\* the initial step of furthestInsertion and convexHull, emitted before the
\* loop is entered
FirstStep(alg, pts, init, cp, bp, m, ir) ==
    Emit(NewRun(alg, pts, init), init, cp, bp, m, ir)

\* the local state with which a strategy without an initial step reaches its
\* loop
LoopInit(alg, pts, s) ==
    IF alg = "nearest-neighbor" THEN nearestNeighborInit(pts, s)
    ELSE insertionInit(pts, s)

\* the strategy call up to its first await (or its return), made by
\* startAlgorithm on the points pts with random index s; (cp, bp, m, ir) is
\* the React state startAlgorithm has set before the call, and the token it
\* has just stored is not stopped
Begin(alg, pts, s, cp, bp, m, ir) ==
    CASE alg = "furthest-insertion" ->
             FirstStep(alg, pts, furthestInsertionInit(pts), cp, bp, m, ir)
      [] alg = "convex-hull" ->
             FirstStep(alg, pts, convexHullInit(pts), cp, bp, m, ir)
      [] OTHER ->
             Resume(NewRun(alg, pts, LoopInit(alg, pts, s)), FALSE, cp, bp, m, ir)

-----------------------------------------------------------------------------
(* The component *)

\* algorithmRef.current?.stopped
Stopped == algorithmRef # 0 /\ tokens[algorithmRef]

\* a run that never awaits keeps the single JavaScript thread: no handler and
\* no timer callback runs any more
Hung == \E i \in 1..Len(runs) : runs[i].pc = "hung"

EmptyMetrics(possiblePaths) ==
    [possiblePaths |-> possiblePaths, currentDistance |-> 0, minDistance |-> Infinity]

\* the positions in the order in which the model's randomize draws them
Grid == <<Point(1, 1), Point(3, 1), Point(2, 2), Point(1, 3), Point(3, 3)>>

\* the point sets the model lets randomize produce for the vertex count v: v
\* positions in a row of Grid.  (The code draws any v different cells in any
\* order; EngineSpec below runs the strategies on every order.)
RandomizeChoices(v) ==
    { SubSeq(Grid, k, k + v - 1) : k \in 1..(Len(Grid) - v + 1) }

\* the history kept for the claims about minDistance
NoteCompletion(out, pts) ==
    IF out.final >= 0
    THEN /\ finalCosts' = IF pts = points THEN finalCosts \cup { out.final }
                          ELSE finalCosts
         /\ lastCompletedMin' = out.metrics.minDistance
         /\ resetSince' = FALSE
    ELSE UNCHANGED <<finalCosts, lastCompletedMin, resetSince>>

\* the component once mounted: the useState / useRef initial values, and the
\* points and metrics set by the effect that runs randomize on mount
Init ==
    /\ \E v \in MinVertices..MaxVertices :
         \E newPoints \in RandomizeChoices(v) :
            /\ points = newPoints
            /\ metrics = EmptyMetrics(factorial(v))
    /\ isRunning = FALSE
    /\ currentPath = <<>>
    /\ bestPath = <<>>
    /\ algorithmRef = 0
    /\ tokens = <<>>
    /\ runs = <<>>
    /\ events = 0
    /\ finalCosts = {}
    /\ lastCompletedMin = Infinity
    /\ resetSince = FALSE
    /\ consoleLog = <<>>
    /\ costPath = <<>>
    /\ costValue = DoubleZero

\* randomizeVerticesCallback: the Randomize button, and the effect that runs it
\* whenever the slider changes vertices
Randomize ==
    /\ ~Hung
    /\ events < MaxEvents
    /\ \E v \in MinVertices..MaxVertices :
         \E newPoints \in RandomizeChoices(v) :
            /\ points' = newPoints
            /\ metrics' = EmptyMetrics(factorial(v))
    /\ currentPath' = <<>>
    /\ bestPath' = <<>>
    /\ events' = events + 1
    /\ finalCosts' = {}
    /\ lastCompletedMin' = Infinity
    /\ resetSince' = FALSE
    /\ UNCHANGED <<isRunning, algorithmRef, tokens, runs, consoleLog, costPath, costValue>>

\* clearVertices: the Clear button
Clear ==
    /\ ~Hung
    /\ events < MaxEvents
    /\ points' = <<>>
    /\ currentPath' = <<>>
    /\ bestPath' = <<>>
    /\ metrics' = EmptyMetrics(0)
    /\ finalCosts' = {}
    /\ lastCompletedMin' = Infinity
    /\ resetSince' = FALSE
    /\ events' = events + 1
    /\ UNCHANGED <<isRunning, algorithmRef, tokens, runs, consoleLog, costPath, costValue>>

\* a start behind a button that is disabled only while isRunning, with the
\* strategy that draws no random index; C13 does not hold of it
StartOnAnyPoints ==
    /\ ~Hung
    /\ ~isRunning
    /\ events < MaxEvents
    /\ \E out \in { Begin("convex-hull", points, 1, <<>>, <<>>, metrics, TRUE) } :
           /\ runs' = Append(runs, out.run)
           /\ currentPath' = out.currentPath
           /\ bestPath' = out.bestPath
           /\ metrics' = out.metrics
           /\ isRunning' = out.isRunning
           /\ NoteCompletion(out, points)
    /\ tokens' = Append(tokens, FALSE)
    /\ algorithmRef' = Len(tokens) + 1
    /\ events' = events + 1
    /\ UNCHANGED <<points, consoleLog, costPath, costValue>>

\* startAlgorithm behind the Start button (disabled={points.length === 0 ||
\* isRunning}), with the selected algorithm and the strategy's random index
Start ==
    /\ ~Hung
    /\ points # <<>>
    /\ ~isRunning
    /\ events < MaxEvents
    /\ \E alg \in Algorithms, s \in 1..Len(points) :
         \E out \in { Begin(alg, points, s, <<>>, <<>>, metrics, TRUE) } :
             /\ runs' = Append(runs, out.run)
             /\ currentPath' = out.currentPath
             /\ bestPath' = out.bestPath
             /\ metrics' = out.metrics
             /\ isRunning' = out.isRunning
             /\ NoteCompletion(out, points)
    /\ tokens' = Append(tokens, FALSE)
    /\ algorithmRef' = Len(tokens) + 1
    /\ events' = events + 1
    /\ UNCHANGED <<points, consoleLog, costPath, costValue>>

\* the setTimeout of run i fires: the run goes on from its await
Wake(i) ==
    /\ ~Hung
    /\ runs[i].pc = "await"
    /\ \E out \in { Resume(runs[i], Stopped, currentPath, bestPath, metrics,
                                isRunning) } :
           /\ runs' = [runs EXCEPT ![i] = out.run]
           /\ currentPath' = out.currentPath
           /\ bestPath' = out.bestPath
           /\ metrics' = out.metrics
           /\ isRunning' = out.isRunning
           /\ NoteCompletion(out, runs[i].pts)
    /\ UNCHANGED <<points, algorithmRef, tokens, events, consoleLog, costPath, costValue>>

\* a reset that leaves the published tour on display; C29 does not hold of it
ResetKeepingBestPath ==
    /\ ~Hung
    /\ events < MaxEvents
    /\ isRunning \/ currentPath # <<>>
    /\ tokens' = IF algorithmRef # 0 THEN [tokens EXCEPT ![algorithmRef] = TRUE]
                 ELSE tokens
    /\ isRunning' = FALSE
    /\ currentPath' = <<>>
    /\ metrics' = [metrics EXCEPT !.currentDistance = 0, !.minDistance = Infinity]
    /\ resetSince' = TRUE
    /\ events' = events + 1
    /\ UNCHANGED <<points, algorithmRef, runs, finalCosts, lastCompletedMin,
                   consoleLog, costPath, costValue, bestPath>>

\* a reset behind a button that is never disabled; C17 does not hold of it
ResetAlways ==
    /\ ~Hung
    /\ events < MaxEvents
    /\ tokens' = IF algorithmRef # 0 THEN [tokens EXCEPT ![algorithmRef] = TRUE]
                 ELSE tokens
    /\ isRunning' = FALSE
    /\ currentPath' = <<>>
    /\ bestPath' = <<>>
    /\ metrics' = [metrics EXCEPT !.currentDistance = 0, !.minDistance = Infinity]
    /\ resetSince' = TRUE
    /\ events' = events + 1
    /\ UNCHANGED <<points, algorithmRef, runs, finalCosts, lastCompletedMin,
                   consoleLog, costPath, costValue>>

\* resetVisualization behind the Reset button (disabled={!isRunning &&
\* currentPath.length === 0}); animationRef.current is never assigned
Reset ==
    /\ ~Hung
    /\ events < MaxEvents
    /\ isRunning \/ currentPath # <<>>
    /\ tokens' = IF algorithmRef # 0 THEN [tokens EXCEPT ![algorithmRef] = TRUE]
                 ELSE tokens
    /\ isRunning' = FALSE
    /\ currentPath' = <<>>
    /\ bestPath' = <<>>
    /\ metrics' = [metrics EXCEPT !.currentDistance = 0, !.minDistance = Infinity]
    /\ resetSince' = TRUE
    /\ events' = events + 1
    /\ UNCHANGED <<points, algorithmRef, runs, finalCosts, lastCompletedMin,
                   consoleLog, costPath, costValue>>

Next ==
    \/ Randomize
    \/ Clear
    \/ Start
    \/ Reset
    \/ \E i \in 1..Len(runs) : Wake(i)

\* the component under its user interface
Spec == Init /\ [][Next]_vars

\* strategy names outside the five of the switch; the Select of lines 569-586
\* offers none, setAlgorithm takes any string
UnknownNames == { "christofides", "" }

\* what startAlgorithm leaves in place of a run when it invokes no strategy
NoRun(name, pts) ==
    [alg |-> name, pts |-> pts, path |-> <<>>, rem |-> <<>>, pc |-> "none"]

\* a start on an unknown name that leaves out the setIsRunning(false) of the
\* default branch; C12 does not hold of it
StartUnknownLeftRunning ==
    /\ ~Hung
    /\ points # <<>>
    /\ ~isRunning
    /\ events < MaxEvents
    /\ \E name \in UnknownNames : runs' = Append(runs, NoRun(name, points))
    /\ tokens' = Append(tokens, FALSE)
    /\ algorithmRef' = Len(tokens) + 1
    /\ currentPath' = <<>>
    /\ bestPath' = <<>>
    /\ isRunning' = TRUE
    /\ consoleLog' = Append(consoleLog, "Algorithm not implemented")
    /\ UNCHANGED <<costPath, costValue>>
    /\ events' = events + 1
    /\ UNCHANGED <<points, metrics, finalCosts, lastCompletedMin, resetSince>>

\* startAlgorithm behind the Start button when algorithm holds a name outside
\* the five: lines 514-517, then the default branch of the switch, which logs
\* and sets isRunning back to false
StartUnknown ==
    /\ ~Hung
    /\ points # <<>>
    /\ ~isRunning
    /\ events < MaxEvents
    /\ \E name \in UnknownNames : runs' = Append(runs, NoRun(name, points))
    /\ tokens' = Append(tokens, FALSE)
    /\ algorithmRef' = Len(tokens) + 1
    /\ currentPath' = <<>>
    /\ bestPath' = <<>>
    /\ isRunning' = FALSE
    /\ consoleLog' = Append(consoleLog, "Algorithm not implemented")
    /\ UNCHANGED <<costPath, costValue>>
    /\ events' = events + 1
    /\ UNCHANGED <<points, metrics, finalCosts, lastCompletedMin, resetSince>>

NextSelection ==
    \/ Next
    \/ StartUnknown

\* the component when its algorithm state may hold any string
SelectionSpec == Init /\ [][NextSelection]_vars

\* The strategies as the engine of spec section 6: startAlgorithm has just
\* been invoked, in the freshly mounted component, with any of the five
\* strategies on any point set of 1 to MaxVertices different positions in any
\* order (the slider keeps the component itself from fewer than MinVertices)
InitEngine ==
    /\ \E n \in 1..MaxVertices :
         \E pts \in PointSets(n) :
            \E alg \in Algorithms, s \in 1..n :
               \E out \in { Begin(alg, pts, s, <<>>, <<>>,
                                  EmptyMetrics(factorial(n)), TRUE) } :
                  /\ points = pts
                  /\ runs = <<out.run>>
                  /\ currentPath = out.currentPath
                  /\ bestPath = out.bestPath
                  /\ metrics = out.metrics
                  /\ isRunning = out.isRunning
                  /\ finalCosts = IF out.final >= 0 THEN { out.final } ELSE {}
                  /\ lastCompletedMin = IF out.final >= 0 THEN out.final ELSE Infinity
    /\ tokens = <<FALSE>>
    /\ algorithmRef = 1
    /\ events = 1
    /\ resetSince = FALSE
    /\ consoleLog = <<>>
    /\ costPath = <<>>
    /\ costValue = DoubleZero

\* the run's timer wake-ups, and stop (reset)
NextEngine ==
    \/ Reset
    \/ \E i \in 1..Len(runs) : Wake(i)

EngineSpec == InitEngine /\ [][NextEngine]_vars

\* setTimeout: a pending timer of the engine's run fires in the end, unless a
\* run that never awaits keeps the thread
EngineFairSpec == EngineSpec /\ WF_vars(Wake(1))

-----------------------------------------------------------------------------
(* src/unnamed/part_000: the untyped version of the component.  Its handlers  *)
(* randomize, clear, start and reset are those of the typed version; its      *)
(* strategies differ from the typed ones as follows.                          *)
(*  - furthestInsertion takes its first point with points.shift(), off the    *)
(*    array held in the points state.                                         *)
(*  - arbitraryInsertion scans the positions 0 .. path.length - 1.            *)
(*  - The metrics are stored as toFixed(2) strings, and minDistance is        *)
(*    updated by finalCost < prev.minDistance ? finalCost.toFixed(2) :        *)
(*    prev.minDistance; the comparison reads the string back as a number.     *)
(*    Every cost of the model is an integer n, whose string "n.00" denotes n: *)
(*    the metrics below hold the number the stored value denotes.             *)
(*  - The guards `if (nextPoint)', `if (nearestPoint)', `if (selectedPoint)'  *)
(*    are absent; on three or more different points each strategy always      *)
(*    selects a point, and the guards make no difference.                     *)

\* part_000 lines 227-234: newPath is costed for every position i below
\* path.length
PositionCostsUntyped(path, nextPoint) ==
    [i \in 0..(Len(path) - 1) |-> pathCost(InsertAt(path, i, nextPoint))]

\* part_000 lines 222-242
arbitraryInsertionStepUntyped(path, rem) ==
    InsertCheapest(path, rem, PositionCostsUntyped(path, rem[1]))

StepUntyped(alg, path, rem) ==
    IF alg = "arbitrary-insertion" THEN arbitraryInsertionStepUntyped(path, rem)
    ELSE Step(alg, path, rem)

\* from the loop test to the next await or to the return, as Resume
ResumeUntyped(run, stopped, cp, bp, m, ir) ==
    IF run.rem # <<>> /\ ~stopped
    THEN Emit(run, StepUntyped(run.alg, run.path, run.rem), cp, bp, m, ir)
    ELSE IF ~stopped THEN Finish(run, cp, bp, m, ir)
    ELSE ObserveStop(run, cp, bp, m)

\* part_000 lines 316-328: path = [points.shift()], remainingPoints = [...points]
\* sorted by descending distance, path.push(remainingPoints.shift())
furthestInsertionInitUntyped(pts) ==
    FurthestFirst(pts[1], SortByDistance(Tail(pts), pts[1], TRUE))

\* the array held in the points state once the strategy has been called on it:
\* points.shift() of furthestInsertion removes its first element in place
PointsAfterCall(alg, pts) ==
    IF alg = "furthest-insertion" THEN Tail(pts) ELSE pts

\* the strategy call of part_000 up to its first await, as Begin
BeginUntyped(alg, pts, s, cp, bp, m, ir) ==
    CASE alg = "furthest-insertion" ->
             FirstStep(alg, pts, furthestInsertionInitUntyped(pts), cp, bp, m, ir)
      [] alg = "convex-hull" ->
             FirstStep(alg, pts, convexHullInit(pts), cp, bp, m, ir)
      [] OTHER ->
             ResumeUntyped(NewRun(alg, pts, LoopInit(alg, pts, s)), FALSE,
                           cp, bp, m, ir)

\* startAlgorithm of part_000 has just been invoked, in the freshly mounted
\* component, with any strategy on any point set randomize can have produced
\* for MinVertices to MaxVertices vertices
InitEngineUntyped ==
    /\ \E n \in MinVertices..MaxVertices :
         \E pts \in PointSets(n) :
            \E alg \in Algorithms, s \in 1..n :
               \E out \in { BeginUntyped(alg, pts, s, <<>>, <<>>,
                                         EmptyMetrics(factorial(n)), TRUE) } :
                  /\ points = PointsAfterCall(alg, pts)
                  /\ runs = <<out.run>>
                  /\ currentPath = out.currentPath
                  /\ bestPath = out.bestPath
                  /\ metrics = out.metrics
                  /\ isRunning = out.isRunning
                  /\ finalCosts = IF out.final >= 0 THEN { out.final } ELSE {}
                  /\ lastCompletedMin = IF out.final >= 0 THEN out.final ELSE Infinity
    /\ tokens = <<FALSE>>
    /\ algorithmRef = 1
    /\ events = 1
    /\ resetSince = FALSE
    /\ consoleLog = <<>>
    /\ costPath = <<>>
    /\ costValue = DoubleZero

\* the setTimeout of run i of part_000 fires
WakeUntyped(i) ==
    /\ ~Hung
    /\ runs[i].pc = "await"
    /\ \E out \in { ResumeUntyped(runs[i], Stopped, currentPath, bestPath,
                                  metrics, isRunning) } :
           /\ runs' = [runs EXCEPT ![i] = out.run]
           /\ currentPath' = out.currentPath
           /\ bestPath' = out.bestPath
           /\ metrics' = out.metrics
           /\ isRunning' = out.isRunning
           /\ NoteCompletion(out, runs[i].pts)
    /\ UNCHANGED <<points, algorithmRef, tokens, events, consoleLog, costPath, costValue>>

NextEngineUntyped ==
    \/ Reset
    \/ \E i \in 1..Len(runs) : WakeUntyped(i)

EngineUntypedSpec == InitEngineUntyped /\ [][NextEngineUntyped]_vars

-----------------------------------------------------------------------------
(* The convex-hull strategy on every point set of the model's positions *)

\* the largest point set convexHull is started on: the four corners of the
\* rectangle and its centre
MaxHullPoints == 5

\* startAlgorithm has just been invoked with convex-hull, in the freshly
\* mounted component, on any point set of 1 to MaxHullPoints different
\* positions in any order
InitHull ==
    /\ \E n \in 1..MaxHullPoints :
         \E pts \in PointSets(n) :
            \E out \in { Begin("convex-hull", pts, 1, <<>>, <<>>,
                               EmptyMetrics(factorial(n)), TRUE) } :
               /\ points = pts
               /\ runs = <<out.run>>
               /\ currentPath = out.currentPath
               /\ bestPath = out.bestPath
               /\ metrics = out.metrics
               /\ isRunning = out.isRunning
               /\ finalCosts = IF out.final >= 0 THEN { out.final } ELSE {}
               /\ lastCompletedMin = IF out.final >= 0 THEN out.final ELSE Infinity
    /\ tokens = <<FALSE>>
    /\ algorithmRef = 1
    /\ events = 1
    /\ resetSince = FALSE
    /\ consoleLog = <<>>
    /\ costPath = <<>>
    /\ costValue = DoubleZero

HullSpec == InitHull /\ [][NextEngine]_vars

\* setTimeout: the pending timer of the run fires in the end
HullFairSpec == HullSpec /\ WF_vars(Wake(1))

-----------------------------------------------------------------------------
(* pathCost as a function of its argument *)

\* how many points the closed tours handed to pathCost hold at most
MaxTourPoints == 4

RECURSIVE TourSets(_)
TourSets(n) ==
    IF n = 0 THEN { <<>> }
    ELSE UNION { { Append(s, p) : p \in TourPositions \ Range(s) } :
                 s \in TourSets(n - 1) }

\* the paths pathCost is applied to: the empty path, the paths of one point,
\* and the closed tours of 1 to MaxTourPoints points
CostInputs ==
    TourSets(0) \cup TourSets(1)
        \cup UNION { { Closed(s) : s \in TourSets(n) } : n \in 1..MaxTourPoints }

\* the closed tour that starts at the second point of the closed tour t
Rotated(t) == Closed(Tail(SubSeq(t, 1, Len(t) - 1)) \o <<t[1]>>)

InitCost ==
    /\ costPath \in CostInputs
    /\ costValue = pathCostDouble(costPath)
    /\ points = <<>>
    /\ metrics = EmptyMetrics(0)
    /\ isRunning = FALSE
    /\ currentPath = <<>>
    /\ bestPath = <<>>
    /\ algorithmRef = 0
    /\ tokens = <<>>
    /\ runs = <<>>
    /\ events = 0
    /\ finalCosts = {}
    /\ lastCompletedMin = Infinity
    /\ resetSince = FALSE
    /\ consoleLog = <<>>

\* pathCost is applied to newPath
Evaluate(newPath) ==
    /\ events < MaxEvents
    /\ costPath' = newPath
    /\ costValue' = pathCostDouble(newPath)
    /\ events' = events + 1
    /\ UNCHANGED <<points, isRunning, currentPath, bestPath, metrics,
                   algorithmRef, tokens, runs, finalCosts, lastCompletedMin,
                   resetSince, consoleLog>>

EvaluateReversed == Evaluate(Reverse(costPath))

EvaluateRotated == Len(costPath) >= 2 /\ Evaluate(Rotated(costPath))

NextCost ==
    \/ EvaluateReversed
    \/ EvaluateRotated

CostSpec == InitCost /\ [][NextCost]_vars

-----------------------------------------------------------------------------
(* Vocabulary of the claims *)

RunIds == 1..Len(runs)

\* the run is started and has neither completed nor returned on seeing its
\* stop flag
Active(i) == runs[i].pc \in { "await", "hung" }

\* reset has set the stopped flag of the token startAlgorithm created for run i
StopRequested(i) == tokens[i]

NoDuplicates(seq) == \A i, j \in 1..Len(seq) : seq[i] = seq[j] => i = j

\* tour is closed and, apart from its closing element, holds every point of
\* pts exactly once
IsClosedTourOf(tour, pts) ==
    /\ Len(tour) = Len(pts) + 1
    /\ tour[1] = tour[Len(tour)]
    /\ Range(SubSeq(tour, 1, Len(pts))) = Range(pts)

\* Start is enabled: the button guard of lines 639-645
StartEnabled == points # <<>> /\ ~isRunning

-----------------------------------------------------------------------------
(* C1: when a run completes without being stopped, the tour it publishes as  *)
(* bestPath is closed and, apart from the repeated closing point, holds every *)
(* point of the run's PointSet exactly once; a non-empty bestPath is always   *)
(* the tour of a completed run.                                               *)
C1_FinalTourIsClosedPermutation ==
    /\ \A i \in RunIds :
         runs[i].pc = "completed" => IsClosedTourOf(runs[i].path, runs[i].pts)
    /\ bestPath # <<>> =>
         \E i \in RunIds : runs[i].pc = "completed" /\ bestPath = runs[i].path

\* a convex-hull run on four points has completed un-stopped and its tour is
\* the published bestPath
C1_Witness ==
    \E i \in RunIds :
        /\ runs[i].pc = "completed"
        /\ runs[i].alg = "convex-hull"
        /\ Len(runs[i].pts) = 4
        /\ bestPath = runs[i].path
        /\ ~StopRequested(i)

(* C2: at any moment at most one strategy run is active.                      *)
C2_AtMostOneActiveRun == Cardinality({ i \in RunIds : Active(i) }) <= 1

(* C3: a run whose stop was requested by reset terminates at its next timer   *)
(* wake-up: it places no further point, emits no step, publishes no bestPath  *)
(* and leaves minDistance alone, whatever happened before the wake-up.        *)
C3_StoppedRunPlacesNothing ==
    [][\A i \in RunIds :
          (StopRequested(i) /\ runs[i].pc = "await" /\ runs'[i] # runs[i]) =>
              /\ runs'[i].pc = "stopped"
              /\ runs'[i].path = runs[i].path
              /\ currentPath' = currentPath
              /\ bestPath' = bestPath
              /\ metrics'.minDistance = metrics.minDistance]_vars

(* C4: at every yield point of a run (awaiting after an emitted step, or      *)
(* returned because it was stopped) its tour holds no point twice, holds only *)
(* points of the PointSet it was started with, and is disjoint from          *)
(* remaining, the two together making up that PointSet.                       *)
C4_TourAndRemainingPartitionPointSet ==
    \A i \in RunIds :
        runs[i].pc \in { "await", "stopped" } =>
            /\ NoDuplicates(runs[i].path)
            /\ Range(runs[i].path) \subseteq Range(runs[i].pts)
            /\ Range(runs[i].path) \cap Range(runs[i].rem) = {}
            /\ Range(runs[i].path) \cup Range(runs[i].rem) = Range(runs[i].pts)

\* a run stopped mid-way, with points placed behind the initial ones and
\* points still remaining
C4_Witness ==
    \E i \in RunIds :
        /\ runs[i].pc = "stopped"
        /\ runs[i].alg = "nearest-insertion"
        /\ Len(runs[i].path) = 3
        /\ runs[i].rem # <<>>

(* C5: a run that is never stopped terminates, given that its timers fire:    *)
(* it publishes its final tour and sets isRunning to false.                   *)
C5_UnstoppedRunTerminates ==
    [](~StopRequested(1)) =>
        <>(runs[1].pc = "completed" /\ bestPath = runs[1].path /\ ~isRunning)

(* C6: no strategy raises an error or produces an undefined tour element, on  *)
(* any PointSet of size >= 1.                                                 *)
C6_StrategiesAreTotal ==
    /\ \A i \in RunIds :
         /\ runs[i].pc \notin { "threw", "hung" }
         /\ Undefined \notin Range(runs[i].path)
    /\ Undefined \notin Range(currentPath)
    /\ Undefined \notin Range(bestPath)

(* C7: whenever Start is enabled, no run is active whose stop flag has not    *)
(* been set.                                                                  *)
C7_StartRefusedWhileRunActive ==
    StartEnabled => ~\E i \in RunIds : Active(i) /\ ~StopRequested(i)

(* C8: an active, un-stopped run never coexists with a controller PointSet    *)
(* other than the one the run was started with.                               *)
C8_PointSetFixedDuringRun ==
    \A i \in RunIds : (Active(i) /\ ~StopRequested(i)) => runs[i].pts = points

(* C9: minDistance is Infinity or the least final cost of the runs completed  *)
(* on the current PointSet since it was created.                              *)
C9_MinDistanceIsMinOfFinalCosts ==
    \/ metrics.minDistance = Infinity
    \/ finalCosts # {} /\ metrics.minDistance = Least(finalCosts)

\* a run passes from awaiting to completed in this step
Completes(i) == runs[i].pc = "await" /\ runs'[i].pc = "completed"

C11_PossiblePathsIsFactorialOfNMinusOne ==
    points # <<>> => metrics.possiblePaths = factorial(Len(points) - 1)

C13_NoRunOnEmptyPointSet ==
    [][points = <<>> =>
          /\ Len(runs') = Len(runs)
          /\ Len(tokens') = Len(tokens)
          /\ algorithmRef' = algorithmRef
          /\ (~isRunning => ~isRunning')]_vars

\* the points have been cleared after a run, nothing is running, and the
\* user may still press buttons
C13_Witness ==
    /\ points = <<>>
    /\ ~isRunning
    /\ Len(runs) >= 1
    /\ events < MaxEvents

(* C14: no strategy modifies the PointSet it is given: while and after a run  *)
(* of the engine, the controller's points sequence is the sequence the run   *)
(* was started with, same elements in the same order.                        *)
C14_StrategyLeavesPointSetAlone ==
    \A i \in RunIds : points = runs[i].pts

\* runs i and j are runs of the same strategy on the same PointSet (same
\* points in the same order) that have emitted the same number of steps
SameRunSoFar(i, j) ==
    /\ runs[i].alg = runs[j].alg
    /\ runs[i].pts = runs[j].pts
    /\ runs[i].pc = runs[j].pc
    /\ runs[i].pc \in { "await", "completed" }
    /\ Len(runs[i].path) = Len(runs[j].path)

ActiveRunCompleted == algorithmRef # 0 /\ runs[algorithmRef].pc = "completed"

\* what resetVisualization assigns is already in place
AsAfterReset ==
    /\ ~isRunning
    /\ currentPath = <<>>
    /\ bestPath = <<>>
    /\ metrics.currentDistance = 0
    /\ metrics.minDistance = Infinity

NewMinimumOf(i) ==
    /\ Completes(i)
    /\ metrics'.minDistance = pathCost(runs'[i].path)

\* a run is started in this step
Starts == Len(runs') = Len(runs) + 1

NearestIndex(rem, last) ==
    CHOOSE k \in 1..Len(rem) :
        \A j \in 1..Len(rem) :
            \/ distance(last, rem[k]) < distance(last, rem[j])
            \/ distance(last, rem[k]) = distance(last, rem[j]) /\ k <= j

\* path is cur with p appended, rest is rem without exactly p, and the path
\* is the step shown
AppendsAndRemoves(cur, rem, p, path, rest, shown) ==
    /\ path = Append(cur, p)
    /\ Range(rest) = Range(rem) \ {p}
    /\ Len(rest) = Len(rem) - 1
    /\ shown = path

(* C19: every loop iteration of nearest-neighbor appends to the tour the      *)
(* remaining point nearest to the tour's last point, the first such point in  *)
(* the order of Remaining when several are equally near, removes exactly that *)
(* point from Remaining and shows the tour as one step; a run that is stopped *)
(* appends nothing; on completion the start point is appended once.           *)
C19_NearestNeighborAppendsNearest ==
    [][\A i \in RunIds :
          runs[i].alg = "nearest-neighbor" =>
             /\ (runs[i].pc = "await" /\ Len(runs[i].path) = 2) =>
                    LET others == Without(runs[i].pts, runs[i].path[1])
                    IN  runs[i].path[2] =
                            others[NearestIndex(others, runs[i].path[1])]
             /\ (runs[i].pc = "await" /\ runs'[i] # runs[i]) =>
                    LET cur == runs[i].path
                        rem == runs[i].rem
                    IN  \/ /\ runs'[i].pc = "stopped"
                           /\ runs'[i].path = cur
                        \/ /\ rem # <<>>
                           /\ runs'[i].pc = "await"
                           /\ AppendsAndRemoves(cur, rem,
                                  rem[NearestIndex(rem, cur[Len(cur)])],
                                  runs'[i].path, runs'[i].rem, currentPath')
                        \/ /\ rem = <<>>
                           /\ runs'[i].pc = "completed"
                           /\ runs'[i].path = Append(cur, cur[1])
                           /\ bestPath' = runs'[i].path]_vars

\* a nearest-neighbor run has placed its third point where the point placed
\* and the point left were equally near to the second
C19_Witness ==
    \E i \in RunIds :
        /\ runs[i].alg = "nearest-neighbor"
        /\ runs[i].pc = "await"
        /\ Len(runs[i].path) = 3
        /\ Len(runs[i].rem) = 1
        /\ distance(runs[i].path[2], runs[i].path[3]) =
               distance(runs[i].path[2], runs[i].rem[1])

(* C20: arbitrary-insertion starts from the tour [p0, p1], p1 the first point *)
(* of the PointSet other than p0; every iteration takes the first point of    *)
(* Remaining and inserts it at the gap i among 0..len(tour) that makes the    *)
(* cost of the closed tour (the tour followed by its first point) least, the  *)
(* smallest such i on ties.                                                   *)
C20_ArbitraryInsertionMinimizesClosedTour ==
    [][LET CheapestClosedGap(path, p) ==
               FirstMin([i \in 0..Len(path) |->
                            pathCost(Closed(InsertAt(path, i, p)))])
           InsertedForClosedTour(path, rem) ==
               InsertAt(path, CheapestClosedGap(path, rem[1]), rem[1])
       IN  \A i \in RunIds :
             (runs[i].alg = "arbitrary-insertion" /\ runs[i].pc = "await") =>
                /\ Len(runs[i].path) = 3 =>
                       \E s \in 1..Len(runs[i].pts) :
                           LET pair == <<runs[i].pts[s],
                                         FindOther(runs[i].pts, runs[i].pts[s])>>
                           IN  runs[i].path =
                                   InsertedForClosedTour(pair,
                                                         NotIn(runs[i].pts, pair))
                /\ (runs'[i].pc = "await" /\ runs'[i] # runs[i]) =>
                       /\ runs'[i].path =
                              InsertedForClosedTour(runs[i].path, runs[i].rem)
                       /\ runs'[i].rem = Tail(runs[i].rem)]_vars

\* the double is a whole number
IsInteger(d) == d.e >= 0 \/ \A i \in 1..(-d.e) : Digit(d.m, i) = 0

\* every edge of the path has a whole-numbered length
IntegerEdges(path) ==
    \A i \in 1..(Len(path) - 1) : IsInteger(distanceDouble(path[i], path[i + 1]))

\* the numeral of the difference of a and b in units of 2^e, for doubles with
\* exponents of at least e
Apart(a, b, e) ==
    IF BitsGeq(ShiftLeft(a.m, a.e - e), ShiftLeft(b.m, b.e - e))
    THEN BitsSub(ShiftLeft(a.m, a.e - e), ShiftLeft(b.m, b.e - e))
    ELSE BitsSub(ShiftLeft(b.m, b.e - e), ShiftLeft(a.m, a.e - e))

\* a and b differ by at most n units in the last place of the one with the
\* larger exponent
WithinUlps(a, b, n) ==
    IF a.m = <<>> \/ b.m = <<>> THEN a = b
    ELSE BitsGeq(ShiftLeft(ToBits(n), Abs(a.e - b.e)),
                 Apart(a, b, Min(a.e, b.e)))

(* C16 as stated: pathCost returns the same value for a closed tour, for the  *)
(* reversed tour and for the tour rotated to another start point; for a path  *)
(* of length 0 or 1 it returns 0.                                             *)
C16_Original ==
    [][/\ events' = events + 1 => costValue' = costValue
       /\ Len(costPath) <= 1 => costValue = DoubleZero]_vars

(* C16, amended: for a closed tour whose edges all have whole-numbered        *)
(* lengths pathCost returns the same value for the reversed and for the       *)
(* rotated tour; for any closed tour of k edges the values it returns for the *)
(* tour, the reversed and the rotated tour differ by at most k - 1 units in   *)
(* the last place, the edge lengths being added in another order; for a path  *)
(* of length 0 or 1 it returns 0.                                             *)
C16_CostSameUpToRounding ==
    [][/\ (events' = events + 1 /\ IntegerEdges(costPath)) =>
             costValue' = costValue
       /\ (events' = events + 1 /\ Len(costPath) >= 2) =>
             WithinUlps(costValue, costValue', Len(costPath) - 2)
       /\ Len(costPath) <= 1 => costValue = DoubleZero]_vars

\* pathCost has been applied to a reversed or rotated tour of the three
\* points whose distances are 40, 30 and 50, and has returned 120
C16_Witness ==
    /\ events > 0
    /\ Len(costPath) = 4
    /\ IntegerEdges(costPath)
    /\ costValue = RoundToDouble(ToBits(120), 0, FALSE)

\* the edges of path, counted from 0, the last one the wrap-around edge
Edges(path) == 0..(Len(path) - 1)

\* (rem[j], edge i) is the first pair of least insertion cost when the points
\* of rem are scanned in order and, for each, the edges of path in order
FirstCheapestPair(path, rem, j, i) ==
    \A k \in 1..Len(rem), e \in Edges(path) :
        \/ insertionCost(path, i, rem[j]) < insertionCost(path, e, rem[k])
        \/ /\ insertionCost(path, i, rem[j]) = insertionCost(path, e, rem[k])
           /\ (j < k \/ (j = k /\ i <= e))

\* path and rest come from cur and rem by inserting the point of the first
\* cheapest pair at its edge and removing exactly that point from rem
InsertsCheapestPair(cur, rem, path, rest) ==
    \E j \in 1..Len(rem), i \in Edges(cur) :
        /\ FirstCheapestPair(cur, rem, j, i)
        /\ path = InsertAt(cur, i + 1, rem[j])
        /\ rest = RemoveAt(rem, j)

(* C21: every iteration of nearest-insertion selects, over all pairs of a     *)
(* remaining point p and a tour edge (tour[i], tour[(i+1) mod len]), the pair *)
(* of least insertion cost, the first such pair with the remaining points in  *)
(* the outer and the edges in the inner scan, inserts p at that edge and      *)
(* removes exactly p from Remaining.                                          *)
C21_NearestInsertionTakesCheapestPair ==
    [][\A r \in RunIds :
          (runs[r].alg = "nearest-insertion" /\ runs[r].pc = "await") =>
             /\ Len(runs[r].path) = 3 =>
                    \E s \in 1..Len(runs[r].pts) :
                        LET pair == <<runs[r].pts[s],
                                      FindOther(runs[r].pts, runs[r].pts[s])>>
                        IN  InsertsCheapestPair(pair, NotIn(runs[r].pts, pair),
                                                runs[r].path, runs[r].rem)
             /\ (runs'[r].pc = "await" /\ runs'[r] # runs[r]) =>
                    InsertsCheapestPair(runs[r].path, runs[r].rem,
                                        runs'[r].path, runs'[r].rem)]_vars

\* a nearest-insertion run on four points has made both its insertions
C21_Witness ==
    \E r \in RunIds :
        /\ runs[r].alg = "nearest-insertion"
        /\ runs[r].pc = "await"
        /\ Len(runs[r].path) = 4
        /\ runs[r].rem = <<>>

\* the least distance from p to a point of path
DistanceToTour(path, p) ==
    CHOOSE d \in { distance(p, path[i]) : i \in 1..Len(path) } :
        \A i \in 1..Len(path) : d <= distance(p, path[i])

\* seq[j] is the first element of seq at which f, a function on the elements
\* of seq, is greatest
FirstGreatest(seq, f, j) ==
    \A k \in 1..Len(seq) :
        f[seq[j]] > f[seq[k]] \/ (f[seq[j]] = f[seq[k]] /\ j <= k)

\* edge i of path is the first edge of least insertion cost for p
FirstCheapestEdge(path, p, i) ==
    \A e \in Edges(path) :
        \/ insertionCost(path, i, p) < insertionCost(path, e, p)
        \/ insertionCost(path, i, p) = insertionCost(path, e, p) /\ i <= e

\* path and rest come from cur and rem by selecting the remaining point
\* furthest from the tour and inserting it at its first cheapest edge
InsertsFurthest(cur, rem, path, rest) ==
    \E j \in 1..Len(rem), i \in Edges(cur) :
        /\ FirstGreatest(rem, [p \in Range(rem) |-> DistanceToTour(cur, p)], j)
        /\ FirstCheapestEdge(cur, rem[j], i)
        /\ path = InsertAt(cur, i + 1, rem[j])
        /\ Range(rest) = Range(rem) \ { rem[j] }
        /\ Len(rest) = Len(rem) - 1

(* C22: furthest-insertion starts its tour as [points[0]]; the second point   *)
(* is the point furthest from points[0]; this initial tour is shown as a step *)
(* before the main loop; every main-loop iteration selects the remaining      *)
(* point whose least distance to a tour point is greatest, the first such     *)
(* point on ties, and inserts it at the tour edge of least insertion cost,    *)
(* the first such edge in tour order, showing the tour as a step.             *)
C22_FurthestInsertionSelectsFurthest ==
    [][\A r \in RunIds :
          (runs[r].alg = "furthest-insertion" /\ runs[r].pc = "await") =>
             /\ runs[r].path[1] = runs[r].pts[1]
             /\ (Len(runs[r].pts) >= 2 /\ Len(runs[r].path) = 2) =>
                    LET p0     == runs[r].pts[1]
                        others == Tail(runs[r].pts)
                    IN  /\ \E j \in 1..Len(others) :
                              /\ FirstGreatest(others,
                                     [p \in Range(others) |-> distance(p0, p)], j)
                              /\ runs[r].path[2] = others[j]
                        /\ Range(runs[r].rem) = Range(others) \ { runs[r].path[2] }
                        /\ ~StopRequested(r) => currentPath = runs[r].path
             /\ (runs'[r].pc = "await" /\ runs'[r] # runs[r]) =>
                    /\ InsertsFurthest(runs[r].path, runs[r].rem,
                                       runs'[r].path, runs'[r].rem)
                    /\ currentPath' = runs'[r].path]_vars

\* a furthest-insertion run on four points has made both its main-loop
\* insertions
C22_Witness ==
    \E r \in RunIds :
        /\ runs[r].alg = "furthest-insertion"
        /\ runs[r].pc = "await"
        /\ Len(runs[r].path) = 4
        /\ runs[r].rem = <<>>
        /\ currentPath = runs[r].path

\* p lies on the segment from a to b
OnSegment(p, a, b) ==
    /\ cross(a, b, p) = 0
    /\ (a.x - p.x) * (b.x - p.x) + (a.y - p.y) * (b.y - p.y) <= 0

\* p lies in the triangle a, b, c or on its border
InTriangle(p, a, b, c) ==
    /\ cross(a, b, c) # 0
    /\ \/ cross(a, b, p) >= 0 /\ cross(b, c, p) >= 0 /\ cross(c, a, p) >= 0
       \/ cross(a, b, p) <= 0 /\ cross(b, c, p) <= 0 /\ cross(c, a, p) <= 0

\* the strict convex-hull vertices of the point set ps: the points that lie
\* neither between two other points nor in a triangle of three others
HullVertices(ps) ==
    { p \in ps :
        /\ ~\E a, b \in ps \ {p} : OnSegment(p, a, b)
        /\ ~\E a, b, c \in ps \ {p} : InTriangle(p, a, b, c) }

\* hull lists the points of vs, each once, counter-clockwise (every turn has
\* a positive cross product) from the lexicographically smallest one
CounterClockwiseFromSmallest(hull, vs) ==
    /\ Range(hull) = vs
    /\ Len(hull) = Cardinality(vs)
    /\ \A p \in vs : p = hull[1] \/ LexBefore(hull[1], p)
    /\ Len(hull) >= 3 =>
           \A i \in 1..Len(hull) :
               cross(hull[i], hull[(i % Len(hull)) + 1],
                     hull[((i + 1) % Len(hull)) + 1]) > 0

(* C23: the initial tour of convex-hull is exactly the set of strict          *)
(* convex-hull vertices of the PointSet (no interior point, no point on a     *)
(* hull edge between two vertices), each once, counter-clockwise from the     *)
(* lexicographically smallest point, shown as a closed tour before any        *)
(* insertion; the points left over are inserted afterwards, each at the edge  *)
(* of least insertion cost.                                                   *)
C23_InitialTourIsStrictHull ==
    /\ \A r \in RunIds :
          /\ runs[r].pc = "await"
          /\ CounterClockwiseFromSmallest(runs[r].path,
                                          HullVertices(Range(runs[r].pts)))
          /\ Range(runs[r].rem) =
                 Range(runs[r].pts) \ HullVertices(Range(runs[r].pts))
          /\ currentPath = Closed(runs[r].path)
    /\ [][\A r \in RunIds :
             (runs[r].pc = "await" /\ runs'[r].pc = "await"
                 /\ runs'[r] # runs[r]) =>
                 InsertsCheapestPair(runs[r].path, runs[r].rem,
                                     runs'[r].path, runs'[r].rem)]_vars

\* all points of the point set ps lie on one line (any set of one or two
\* points does): the hull computation then leaves at most two points
Collinear(ps) == \A a, b, c \in ps : cross(a, b, c) = 0

(* C24: when all points of the PointSet are collinear (PointSets of size 1    *)
(* and 2 included), a convex-hull run that is not stopped and whose timers    *)
(* fire inserts every remaining point and completes, and its final closed     *)
(* tour holds every point of the PointSet exactly once.                       *)
C24_DegenerateHullCompletes ==
    [](~StopRequested(1)) =>
        <>(Collinear(Range(runs[1].pts)) =>
              /\ runs[1].pc = "completed"
              /\ runs[1].rem = <<>>
              /\ IsClosedTourOf(runs[1].path, runs[1].pts))

(* C25: on a PointSet of one point p a nearest-neighbor run closes at once:   *)
(* it shows no step (currentPath stays empty), and all it leaves is the       *)
(* terminal result, the final tour [p, p] as bestPath with final cost 0, and  *)
(* isRunning false.                                                           *)
C25_SinglePointClosesAtOnce ==
    \A r \in RunIds :
        (runs[r].alg = "nearest-neighbor" /\ Len(runs[r].pts) = 1) =>
            /\ runs[r].pc = "completed"
            /\ runs[r].path = <<runs[r].pts[1], runs[r].pts[1]>>
            /\ currentPath = <<>>
            /\ bestPath = runs[r].path
            /\ metrics.currentDistance = 0
            /\ metrics.minDistance = 0
            /\ ~isRunning

\* nearest-neighbor has been run on a single point
C25_Witness ==
    \E r \in RunIds :
        /\ runs[r].alg = "nearest-neighbor"
        /\ Len(runs[r].pts) = 1
        /\ runs[r].pc = "completed"
        /\ bestPath = <<runs[r].pts[1], runs[r].pts[1]>>

\* run r goes from one await to the next in this step: one loop iteration
Iterates(r) ==
    runs[r].pc = "await" /\ runs'[r].pc = "await" /\ runs'[r] # runs[r]

(* C26: within a run one step is shown per placement: the tour of each step   *)
(* holds exactly one more distinct point than the tour of the run's previous  *)
(* step and every point of that tour, and whenever the run yields, every      *)
(* point it has taken out of Remaining is in the tour of the step it has      *)
(* shown.                                                                     *)
C26_OneStepPerPlacement ==
    [][\A r \in RunIds :
          /\ (runs[r].pc = "await" /\ ~StopRequested(r)) =>
                 Range(runs[r].pts) \ Range(runs[r].rem) \subseteq Range(currentPath)
          /\ Iterates(r) =>
                 /\ Range(currentPath) \subseteq Range(currentPath')
                 /\ Cardinality(Range(currentPath')) =
                        Cardinality(Range(currentPath)) + 1
                 /\ Len(runs'[r].rem) = Len(runs[r].rem) - 1
                 /\ Range(runs[r].rem) \ Range(runs'[r].rem)
                        = Range(currentPath') \ Range(currentPath)
          /\ runs'[r].rem # runs[r].rem => Iterates(r)]_vars

\* an arbitrary-insertion run on four points has shown the step of its last
\* placement
C26_Witness ==
    \E r \in RunIds :
        /\ runs[r].alg = "arbitrary-insertion"
        /\ runs[r].pc = "await"
        /\ Len(runs[r].pts) = 4
        /\ runs[r].rem = <<>>
        /\ currentPath = Closed(runs[r].path)

(* C27: for every step shown by any of the five strategies, the cost reported *)
(* with the step (metrics.currentDistance) is pathCost of the tour shown in   *)
(* that step (currentPath).                                                   *)
C27_StepCostIsCostOfStepTour ==
    /\ \A r \in RunIds :
          runs[r].pc = "await" => metrics.currentDistance = pathCost(currentPath)
    /\ [][\A r \in RunIds :
             Iterates(r) => metrics'.currentDistance = pathCost(currentPath')]_vars

(* C28: in every reachable state, whatever the interleaving of start, reset,  *)
(* randomize and clear with the runs' wake-ups, every point of the displayed  *)
(* currentPath and of bestPath is a point of the controller's current         *)
(* PointSet.                                                                  *)
C28_PathsStayWithinPointSet ==
    /\ Range(currentPath) \subseteq Range(points)
    /\ Range(bestPath) \subseteq Range(points)

(* C29: in every reachable state, if bestPath is not empty then minDistance   *)
(* is finite and at most pathCost(bestPath).                                  *)
C29_MinDistanceBoundsBestPath ==
    bestPath # <<>> =>
        /\ metrics.minDistance < Infinity
        /\ metrics.minDistance <= pathCost(bestPath)

\* the tour on display is dearer than the tour an earlier run published
C29_Witness ==
    /\ bestPath # <<>>
    /\ metrics.minDistance < pathCost(bestPath)
    /\ Cardinality({ r \in RunIds : runs[r].pc = "completed" }) = 2

\* the element that follows position k of seq when seq is read as a cycle
CyclicNext(seq, k) == seq[(k % Len(seq)) + 1]

\* new is cur with p placed between the two ends of edge i of cur, i counted
\* from 0, and the points of cur in their order: behind the end of cur for
\* the wrap-around edge
PlacedAtEdge(cur, new, p, i) ==
    /\ Len(new) = Len(cur) + 1
    /\ new[i + 2] = p
    /\ new[i + 1] = cur[i + 1]
    /\ CyclicNext(new, i + 2) = CyclicNext(cur, i + 1)
    /\ SelectSeq(new, LAMBDA q : q # p) = cur
    /\ i = Len(cur) - 1 => new = cur \o <<p>>

(* C30: in nearest-insertion, furthest-insertion and convex-hull the point    *)
(* selected is inserted at the edge (tour[i], tour[(i+1) mod len]) of least   *)
(* insertion cost: it comes to lie cyclically between exactly those two       *)
(* points, the points placed before keep their cyclic order, and for the      *)
(* wrap-around edge the point is appended at the end of the tour.             *)
C30_InsertionKeepsCyclicOrder ==
    [][\A r \in RunIds :
          ( /\ runs[r].alg \in { "nearest-insertion", "furthest-insertion",
                                 "convex-hull" }
            /\ Iterates(r) ) =>
              \E p \in Range(runs[r].rem) \ Range(runs'[r].rem) :
                 \E i \in Edges(runs[r].path) :
                    /\ PlacedAtEdge(runs[r].path, runs'[r].path, p, i)
                    /\ \A e \in Edges(runs[r].path) :
                           insertionCost(runs[r].path, i, p)
                               <= insertionCost(runs[r].path, e, p)]_vars

\* a convex-hull run on four points has inserted the point its hull left out
C30_Witness ==
    \E r \in RunIds :
        /\ runs[r].alg = "convex-hull"
        /\ runs[r].pc = "await"
        /\ Len(runs[r].pts) = 4
        /\ Len(runs[r].path) = 4
        /\ Cardinality(HullVertices(Range(runs[r].pts))) = 3

(* C31: once reset has been invoked while a run is active, and as long as no  *)
(* start follows (the active token is the stopped one), currentPath and       *)
(* bestPath stay empty, minDistance stays Infinity and isRunning stays false; *)
(* the wake-up left to the stopped run ends the run and writes nothing but    *)
(* isRunning = false.                                                         *)
C31_NothingWrittenAfterReset ==
    [][(Stopped /\ ~Starts) =>
          /\ Stopped'
          /\ currentPath' = <<>>
          /\ bestPath' = <<>>
          /\ metrics'.minDistance = Infinity
          /\ ~isRunning'
          /\ \A r \in RunIds :
                (runs[r].pc = "await" /\ runs'[r] # runs[r]) =>
                    /\ runs'[r] = [runs[r] EXCEPT !.pc = "stopped"]
                    /\ UNCHANGED <<points, metrics, tokens, algorithmRef>>]_vars

\* reset was invoked while a run was awaiting its timer, no start has
\* followed, and the run's wake-up has ended it
C31_Witness ==
    /\ Stopped
    /\ runs[algorithmRef].pc = "stopped"
    /\ Len(runs[algorithmRef].rem) >= 1
    /\ currentPath = <<>>
    /\ ~isRunning

=============================================================================
